---- MODULE Spec2Model ----
(***************************************************************************)
(* A model of the cesu8 crate (src/src/lib.rs): the CESU-8 <-> UTF-8 codec. *)
(*                                                                         *)
(* A byte is a number in 0..255, a buffer a sequence of bytes.  A Rust     *)
(* &str is modelled by the sequence of its code points; its bytes are the  *)
(* UTF-8 encoding of those code points (the str invariant).  The three     *)
(* public functions is_valid_cesu8, to_cesu8 and from_cesu8 are operators, *)
(* computed as the code computes them, and each is applied by one action.  *)
(***************************************************************************)
EXTENDS Integers, Sequences, FiniteSets

VARIABLES
    text,      \* the &str handed to is_valid_cesu8 / to_cesu8 (code points)
    bytes,     \* the &[u8] handed to from_cesu8
    valid,     \* result of is_valid_cesu8(text), "none" before the call
    encoded,   \* result of to_cesu8(text), "none" before the call
    decoded,   \* result of from_cesu8(bytes), "none" before the call
    pc         \* which calls have been made

vars == <<text, bytes, valid, encoded, decoded, pc>>

----------------------------------------------------------------------------
(* Bounds of the model. *)

\* Longest text, in code points.
MaxChars == 3

\* Longest from_cesu8 input, in fragments of InputFragments.
MaxFragments == 3

----------------------------------------------------------------------------
(* Fixed-width integer arithmetic of the code. *)

RECURSIVE BitAnd(_, _)
\* a & b
BitAnd(a, b) ==
    IF a = 0 \/ b = 0 THEN 0
    ELSE (a % 2) * (b % 2) + 2 * BitAnd(a \div 2, b \div 2)

RECURSIVE BitOr(_, _)
\* a | b
BitOr(a, b) ==
    IF a = 0 THEN b
    ELSE IF b = 0 THEN a
    ELSE (IF a % 2 = 1 \/ b % 2 = 1 THEN 1 ELSE 0) + 2 * BitOr(a \div 2, b \div 2)

\* a << n and a >> n on values that stay inside their width
Shl(a, n) == a * (2 ^ n)
Shr(a, n) == a \div (2 ^ n)

\* `as u8`, and !x on a u8
AsU8(x) == x % 256
NotU8(x) == 255 - x

\* bytes[i..j] of a 0-based Rust slice, as a sequence
Slice(b, i, j) == SubSeq(b, i + 1, j)

----------------------------------------------------------------------------
(* Constants of the code. *)

\* Mask of the value bits of a continuation byte.
CONT_MASK == \H3F

\* Value of the tag bits of a continuation byte.
TAG_CONT_U8 == \H80

\* unicode::utf8_char_width: the byte classifier.  The module unicode is not
\* among the sources; this is the classifier of section 4.1 of the
\* specification: the width given by the high bits of a byte that starts a
\* sequence, and 0 for the bytes that start none (continuation bytes and the
\* leading bytes no well-formed sequence uses: 0xC0, 0xC1, 0xF5..0xFF).
utf8_char_width(b) ==
    IF b < \H80 THEN 1
    ELSE IF b < \HC2 THEN 0
    ELSE IF b < \HE0 THEN 2
    ELSE IF b < \HF0 THEN 3
    ELSE IF b < \HF5 THEN 4
    ELSE 0

----------------------------------------------------------------------------
(* The standard library, as the code uses it. *)

\* (byte & !CONT_MASK) == TAG_CONT_U8
IsCont(byte) == BitAnd(byte, NotU8(CONT_MASK)) = TAG_CONT_U8

\* The UTF-8 bytes of one char (char::encode_utf8): what a &str holds.
Utf8Char(c) ==
    IF c < \H80 THEN <<c>>
    ELSE IF c < \H800 THEN <<\HC0 + (c \div 64), \H80 + (c % 64)>>
    ELSE IF c < \H10000 THEN
        <<\HE0 + (c \div 4096), \H80 + ((c \div 64) % 64), \H80 + (c % 64)>>
    ELSE <<\HF0 + (c \div 262144), \H80 + ((c \div 4096) % 64),
           \H80 + ((c \div 64) % 64), \H80 + (c % 64)>>

RECURSIVE AsBytes(_)
\* str::as_bytes: the UTF-8 bytes of a text
AsBytes(t) == IF t = <<>> THEN <<>> ELSE Utf8Char(Head(t)) \o AsBytes(Tail(t))

\* How many bytes the well-formed UTF-8 sequence at offset i of b takes,
\* 0 when there is none (core::str::from_utf8's validation, Unicode table 3-7).
Utf8SeqLen(b, i) ==
    LET n == Len(b) - i
        b1 == b[i + 1]
        c(k) == k <= n /\ IsCont(b[i + k])
        rng(k, lo, hi) == k <= n /\ lo <= b[i + k] /\ b[i + k] <= hi
    IN  IF b1 < \H80 THEN 1
        ELSE IF \HC2 <= b1 /\ b1 <= \HDF THEN (IF c(2) THEN 2 ELSE 0)
        ELSE IF b1 = \HE0 THEN (IF rng(2, \HA0, \HBF) /\ c(3) THEN 3 ELSE 0)
        ELSE IF b1 = \HED THEN (IF rng(2, \H80, \H9F) /\ c(3) THEN 3 ELSE 0)
        ELSE IF \HE1 <= b1 /\ b1 <= \HEF THEN (IF c(2) /\ c(3) THEN 3 ELSE 0)
        ELSE IF b1 = \HF0 THEN
            (IF rng(2, \H90, \HBF) /\ c(3) /\ c(4) THEN 4 ELSE 0)
        ELSE IF b1 = \HF4 THEN
            (IF rng(2, \H80, \H8F) /\ c(3) /\ c(4) THEN 4 ELSE 0)
        ELSE IF \HF1 <= b1 /\ b1 <= \HF3 THEN
            (IF c(2) /\ c(3) /\ c(4) THEN 4 ELSE 0)
        ELSE 0

RECURSIVE Utf8From(_, _)
Utf8From(b, i) ==
    IF i >= Len(b) THEN TRUE
    ELSE LET k == Utf8SeqLen(b, i) IN k > 0 /\ Utf8From(b, i + k)

\* std::str::from_utf8(b).is_ok()
from_utf8_ok(b) == Utf8From(b, 0)

\* str::utf16_units of the one-char str held in four bytes: the char is
\* decoded from its UTF-8 bytes and split into its UTF-16 surrogate pair.
utf16_units(s) ==
    LET c == (s[1] % 8) * 262144 + (s[2] % 64) * 4096 + (s[3] % 64) * 64
             + (s[4] % 64)
        v == c - \H10000
    IN  <<\HD800 + (v \div 1024), \HDC00 + (v % 1024)>>

----------------------------------------------------------------------------
(* The encoder: is_valid_cesu8, enc_surrogate, to_cesu8. *)

\* is_valid_cesu8 with the width test off by one.
is_valid_cesu8_wide(b) ==
    \A k \in 1..Len(b) :
        \/ BitAnd(b[k], NotU8(CONT_MASK)) = TAG_CONT_U8
        \/ ~(utf8_char_width(b[k]) > 4)

\* is_valid_cesu8 on the bytes of a text: continuation bytes are skipped, and
\* a byte of width above 3 makes it return false.
is_valid_cesu8(b) ==
    \A k \in 1..Len(b) :
        \/ BitAnd(b[k], NotU8(CONT_MASK)) = TAG_CONT_U8
        \/ ~(utf8_char_width(b[k]) > 3)

\* assert!(0xD800 <= surrogate && surrogate <= 0xDFFF) of enc_surrogate
enc_surrogate_assert(surrogate) == \HD800 <= surrogate /\ surrogate <= \HDFFF

\* enc_surrogate with a bit missing from the mask of the second byte.
enc_surrogate_narrow(surrogate) ==
    << BitOr(\HE0, AsU8(Shr(BitAnd(surrogate, \HF000), 12))),
       BitOr(TAG_CONT_U8, AsU8(Shr(BitAnd(surrogate, \H07C0), 6))),
       BitOr(TAG_CONT_U8, AsU8(BitAnd(surrogate, \H003F))) >>

\* enc_surrogate: one surrogate as three bytes, 1110xxxx 10xxxxxx 10xxxxxx
enc_surrogate(surrogate) ==
    << BitOr(\HE0, AsU8(Shr(BitAnd(surrogate, \HF000), 12))),
       BitOr(TAG_CONT_U8, AsU8(Shr(BitAnd(surrogate, \H0FC0), 6))),
       BitOr(TAG_CONT_U8, AsU8(BitAnd(surrogate, \H003F))) >>

\* Vec::with_capacity(bytes.len() + bytes.len() >> 2): in Rust + binds
\* tighter than >>, so the sum is shifted.
to_cesu8_capacity(len) == Shr(len + len, 2)

\* to_cesu8_char that encodes only the first UTF-16 unit.
to_cesu8_char_first(b, i, w) ==
    IF w # 4 THEN Slice(b, i, i + w)
    ELSE enc_surrogate(utf16_units(Slice(b, i, i + w))[1])

\* What to_cesu8 appends for the non-ASCII character of width w at offset i:
\* the sequence itself when w != 4, else one enc_surrogate per UTF-16 unit.
to_cesu8_char(b, i, w) ==
    IF w # 4 THEN Slice(b, i, i + w)
    ELSE LET u == utf16_units(Slice(b, i, i + w))
         IN  enc_surrogate(u[1]) \o enc_surrogate(u[2])

\* The assertions on the way to to_cesu8_char.
to_cesu8_asserts(b, i, w) ==
    /\ w <= 4
    /\ i + w <= Len(b)
    /\ w = 4 => LET u == utf16_units(Slice(b, i, i + w))
                IN  enc_surrogate_assert(u[1]) /\ enc_surrogate_assert(u[2])

RECURSIVE to_cesu8_loop(_, _, _)
\* The while loop of to_cesu8, from offset i with `enc` built so far.
to_cesu8_loop(b, i, enc) ==
    IF ~(i < Len(b)) THEN [panic |-> FALSE, bytes |-> enc]
    ELSE LET x == b[i + 1] IN
        IF x < 128 THEN to_cesu8_loop(b, i + 1, Append(enc, x))
        ELSE LET w == utf8_char_width(x) IN
            IF ~to_cesu8_asserts(b, i, w) THEN [panic |-> TRUE, bytes |-> enc]
            ELSE to_cesu8_loop(b, i + w, enc \o to_cesu8_char(b, i, w))

\* to_cesu8: Cow::Borrowed(text.as_bytes()) when is_valid_cesu8(text), else
\* Cow::Owned of the re-encoded bytes; `requested` is the capacity asked for.
to_cesu8(t) ==
    LET b == AsBytes(t) IN
    IF is_valid_cesu8(b)
    THEN [kind |-> "Borrowed", bytes |-> b, requested |-> 0]
    ELSE LET r == to_cesu8_loop(b, 0, <<>>) IN
         IF r.panic
         THEN [kind |-> "Panic", bytes |-> <<>>, requested |-> to_cesu8_capacity(Len(b))]
         ELSE [kind |-> "Owned", bytes |-> r.bytes,
               requested |-> to_cesu8_capacity(Len(b))]

----------------------------------------------------------------------------
(* The decoder: dec_surrogate, dec_surrogates, decode_from_iter, from_cesu8. *)

\* dec_surrogate that does not mask the third byte.
dec_surrogate_unmasked(second, third) ==
    BitOr(BitOr(\HD000, Shl(BitAnd(second, CONT_MASK), 6)), third)

\* dec_surrogate: the two trailing bytes of a CESU-8 surrogate to its value
dec_surrogate(second, third) ==
    BitOr(BitOr(\HD000, Shl(BitAnd(second, CONT_MASK), 6)),
          BitAnd(third, CONT_MASK))

\* One of the u32 subtractions s1 - 0xD800, s2 - 0xDC00 of dec_surrogates
\* goes below zero.  A build with overflow checks panics there; a build
\* without them wraps, and the wrapped c lies outside 0x10000..0x10FFFF, so
\* the assertion that follows panics: either way the call panics.
dec_underflow(s1, s2) == s1 < \HD800 \/ s2 < \HDC00

\* The code point dec_surrogates computes from the two surrogates.
dec_code_point(s1, s2) ==
    \H10000 + BitOr(Shl(s1 - \HD800, 10), s2 - \HDC00)

\* dec_surrogates: `ok` says that it did not panic (no underflow, and its
\* assertion 0x10000 <= c <= 0x10FFFF), `bytes` are the four UTF-8 bytes
\* 11110xxx 10xxxxxx 10xxxxxx 10xxxxxx of c.
dec_surrogates(second, third, fifth, sixth) ==
    LET s1 == dec_surrogate(second, third)
        s2 == dec_surrogate(fifth, sixth)
        c  == IF dec_underflow(s1, s2) THEN 0 ELSE dec_code_point(s1, s2)
    IN  [ok |-> ~dec_underflow(s1, s2) /\ \H10000 <= c /\ c <= \H10FFFF,
         bytes |-> << BitOr(\HF0, AsU8(Shr(BitAnd(c, \H1C0000), 18))),
                      BitOr(TAG_CONT_U8, AsU8(Shr(BitAnd(c, \H03F000), 12))),
                      BitOr(TAG_CONT_U8, AsU8(Shr(BitAnd(c, \H000FC0), 6))),
                      BitOr(TAG_CONT_U8, AsU8(BitAnd(c, \H00003F))) >>]

\* `first < 127`: the bytes decode_from_iter passes through as ASCII.
is_ascii_pass(first) == first < 127

\* next!() yields a byte: the iterator, at offset i of b, is not exhausted.
has_next(b, i) == i < Len(b)

\* next_cont!() that does not test the tag bits.
has_next_cont_untagged(b, i) == has_next(b, i)

\* next_cont!() yields a byte: there is one and it is a continuation byte.
has_next_cont(b, i) ==
    has_next(b, i) /\ BitAnd(b[i + 1], NotU8(CONT_MASK)) = TAG_CONT_U8

\* The pass-through test with the 0xED row as wide as its neighbours.
is_utf8_three_wide(first, second) ==
    \HE0 <= first /\ first <= \HEF /\ \H80 <= second /\ second <= \HBF

\* The (first, second) pairs of the three-byte sequences passed through.
is_utf8_three(first, second) ==
    \/ first = \HE0 /\ \HA0 <= second /\ second <= \HBF
    \/ \HE1 <= first /\ first <= \HEC /\ \H80 <= second /\ second <= \HBF
    \/ first = \HED /\ \H80 <= second /\ second <= \H9F
    \/ \HEE <= first /\ first <= \HEF /\ \H80 <= second /\ second <= \HBF

\* The (first, second) pairs that open a surrogate pair.
is_first_half(first, second) ==
    first = \HED /\ \HA0 <= second /\ second <= \HAF

\* `if next!() != 0xED { err!() }` passes at offset i.
has_second_lead(b, i) == has_next(b, i) /\ ~(b[i + 1] # \HED)

\* The range test of the fifth byte with only its upper bound.
is_second_half_unbounded(fifth) == ~(\HBF < fifth)

\* `if fifth < 0xB0 || 0xBF < fifth { err!() }` passes.
is_second_half(fifth) == ~(fifth < \HB0 \/ \HBF < fifth)

RECURSIVE decode_from_iter(_, _, _)
\* decode_from_iter with the iterator at offset i of b and `dec` pushed so
\* far.  status is "true" or "false" (what it returns) or "panic" (the
\* assertion of dec_surrogates failed); dec is the buffer it leaves.
decode_from_iter(dec, b, i) ==
    LET err == [status |-> "false", dec |-> dec] IN
    IF ~has_next(b, i) THEN [status |-> "true", dec |-> dec]
    ELSE LET first == b[i + 1] IN
    IF is_ascii_pass(first) THEN decode_from_iter(Append(dec, first), b, i + 1)
    ELSE LET w == utf8_char_width(first) IN
    IF ~has_next_cont(b, i + 1) THEN err
    ELSE LET second == b[i + 2] IN
    IF w = 2 THEN decode_from_iter(dec \o <<first, second>>, b, i + 2)
    ELSE IF w = 3 THEN
        IF ~has_next_cont(b, i + 2) THEN err
        ELSE LET third == b[i + 3] IN
        IF is_utf8_three(first, second)
        THEN decode_from_iter(dec \o <<first, second, third>>, b, i + 3)
        ELSE IF is_first_half(first, second) THEN
            IF ~has_second_lead(b, i + 3) THEN err
            ELSE IF ~has_next_cont(b, i + 4) THEN err
            ELSE LET fifth == b[i + 5] IN
            IF ~is_second_half(fifth) THEN err
            ELSE IF ~has_next_cont(b, i + 5) THEN err
            ELSE LET sixth == b[i + 6]
                     s == dec_surrogates(second, third, fifth, sixth)
                 IN  IF ~s.ok THEN [status |-> "panic", dec |-> dec]
                     ELSE decode_from_iter(dec \o s.bytes, b, i + 6)
        ELSE err
    ELSE err

\* from_cesu8: Ok(Cow::Borrowed) when the input is UTF-8 as it stands; else
\* Ok(Cow::Owned(decoded)) when decode_from_iter returns true and the decoded
\* buffer passes the assertion; Err(Cesu8DecodingError), which carries
\* nothing, when it returns false.  "Panic" is a failed assertion.
from_cesu8(b) ==
    IF from_utf8_ok(b) THEN [tag |-> "Ok", kind |-> "Borrowed", bytes |-> b]
    ELSE LET r == decode_from_iter(<<>>, b, 0) IN
         IF r.status = "true" THEN
             IF from_utf8_ok(r.dec)
             THEN [tag |-> "Ok", kind |-> "Owned", bytes |-> r.dec]
             ELSE [tag |-> "Panic", kind |-> "None", bytes |-> <<>>]
         ELSE IF r.status = "panic"
         THEN [tag |-> "Panic", kind |-> "None", bytes |-> <<>>]
         ELSE [tag |-> "Err", kind |-> "None", bytes |-> <<>>]

----------------------------------------------------------------------------
(* Inputs. *)

\* The code points texts are made of: ASCII with its two ends, a two-byte
\* and three three-byte characters, and supplementary characters with the
\* two ends of their range.
CodePoints ==
    { \H00, \H4D, \H7F, \HE9, \H65E5, \HD7FF, \HFFFF,
      \H10000, \H10401, \H10437, \H10FFFF }

\* The texts: every sequence of at most MaxChars code points.
Texts == UNION { [1..n -> CodePoints] : n \in 0..MaxChars }

\* The byte strings from_cesu8 inputs are made of: well-formed sequences of
\* every width, the two halves of surrogate pairs and a whole pair, and
\* sequences cut short, lone continuation bytes and bytes that start nothing.
InputFragments ==
    { <<\H00>>, <<\H4D>>, <<\H7E>>, <<\H7F>>,
      <<\HC3, \HA9>>, <<\HDF, \HBF>>,
      <<\HE0, \HA0, \H80>>, <<\HE6, \H97, \HA5>>, <<\HED, \H9F, \HBF>>,
      <<\HEF, \HBF, \HBF>>,
      <<\HF0, \H90, \H90, \H81>>,
      <<\HED, \HA0, \H81>>, <<\HED, \HAF, \HBF>>,
      <<\HED, \HB0, \H81>>, <<\HED, \HBF, \HBF>>,
      <<\HED, \HA0, \H81, \HED, \HB0, \H81>>,
      <<\HC3>>, <<\HE6, \H97>>, <<\HED, \HA0>>, <<\HED, \HB0>>,
      <<\HE0, \H80>>, <<\H80>>, <<\HC0>>, <<\HFF>> }

RECURSIVE Concat(_)
\* The fragments of a sequence, joined.
Concat(fs) == IF fs = <<>> THEN <<>> ELSE Head(fs) \o Concat(Tail(fs))

\* The from_cesu8 inputs: at most MaxFragments fragments, joined.
ByteInputs ==
    { Concat(fs) : fs \in UNION { [1..n -> InputFragments] : n \in 0..MaxFragments } }

NoEncoded == [kind |-> "None", bytes |-> <<>>, requested |-> 0]
NoDecoded == [tag |-> "None", kind |-> "None", bytes |-> <<>>]

----------------------------------------------------------------------------
(* The calls on a text: is_valid_cesu8, to_cesu8, and from_cesu8 on what *)
(* to_cesu8 returned.                                                    *)

Init ==
    /\ text \in Texts
    /\ bytes = <<>>
    /\ valid = FALSE
    /\ encoded = NoEncoded
    /\ decoded = NoDecoded
    /\ pc = "text"

\* is_valid_cesu8(text)
IsValidCesu8 ==
    /\ pc = "text"
    /\ valid' = is_valid_cesu8(AsBytes(text))
    /\ pc' = "checked"
    /\ UNCHANGED <<text, bytes, encoded, decoded>>

\* to_cesu8(text)
ToCesu8 ==
    /\ pc = "checked"
    /\ encoded' = to_cesu8(text)
    /\ pc' = "encoded"
    /\ UNCHANGED <<text, bytes, valid, decoded>>

\* from_cesu8 on the bytes to_cesu8 returned
FromEncoded ==
    /\ pc = "encoded"
    /\ encoded.kind # "Panic"
    /\ bytes' = encoded.bytes
    /\ decoded' = from_cesu8(encoded.bytes)
    /\ pc' = "decoded"
    /\ UNCHANGED <<text, valid, encoded>>

Next == IsValidCesu8 \/ ToCesu8 \/ FromEncoded

Spec == Init /\ [][Next]_vars

----------------------------------------------------------------------------
(* from_cesu8 on arbitrary bytes. *)

InitBytes ==
    /\ text = <<>>
    /\ bytes \in ByteInputs
    /\ valid = FALSE
    /\ encoded = NoEncoded
    /\ decoded = NoDecoded
    /\ pc = "bytes"

\* from_cesu8(bytes)
FromCesu8 ==
    /\ pc = "bytes"
    /\ decoded' = from_cesu8(bytes)
    /\ pc' = "decoded"
    /\ UNCHANGED <<text, bytes, valid, encoded>>

NextBytes == FromCesu8

SpecBytes == InitBytes /\ [][NextBytes]_vars

----------------------------------------------------------------------------
(* What the properties speak of. *)

IsSupplementary(c) == c >= \H10000

HasSupplementary(t) == \E k \in 1..Len(t) : IsSupplementary(t[k])

NumSupplementary(t) == Cardinality({ k \in 1..Len(t) : IsSupplementary(t[k]) })

\* A continuation byte, 10xxxxxx.
ContByte(x) == \H80 <= x /\ x <= \HBF

\* s starts a well-formed three-byte sequence that is no surrogate.
ThreeByteStart(x, y) ==
    \/ x = \HE0 /\ \HA0 <= y /\ y <= \HBF
    \/ x \in (\HE1..\HEF) \ {\HED} /\ ContByte(y)
    \/ x = \HED /\ \H80 <= y /\ y <= \H9F

\* The length of the well-formed CESU-8 sequence at offset i of b, 0 when
\* there is none: one byte 0x00..0x7F, a two-byte sequence, a three-byte
\* sequence that is no surrogate, or a six-byte surrogate pair.
CesuSeqLen(b, i) ==
    LET n == Len(b) - i
        at(k) == b[i + k]
    IN  IF at(1) <= \H7F THEN 1
        ELSE IF \HC2 <= at(1) /\ at(1) <= \HDF
        THEN (IF n >= 2 /\ ContByte(at(2)) THEN 2 ELSE 0)
        ELSE IF n >= 3 /\ ThreeByteStart(at(1), at(2)) /\ ContByte(at(3)) THEN 3
        ELSE IF /\ n >= 6
                /\ at(1) = \HED /\ \HA0 <= at(2) /\ at(2) <= \HAF /\ ContByte(at(3))
                /\ at(4) = \HED /\ \HB0 <= at(5) /\ at(5) <= \HBF /\ ContByte(at(6))
        THEN 6
        ELSE 0

RECURSIVE WellFormedFrom(_, _, _)
\* b[i..] is a concatenation of well-formed CESU-8 sequences; with `strict`,
\* of one-byte sequences below 0x7F and two- and three-byte sequences only.
WellFormedFrom(b, i, strict) ==
    IF i >= Len(b) THEN TRUE
    ELSE LET k == CesuSeqLen(b, i) IN
         /\ k > 0
         /\ strict => k < 6 /\ b[i + 1] # \H7F
         /\ WellFormedFrom(b, i + k, strict)

WellFormedCesu8(b) == WellFormedFrom(b, 0, FALSE)

\* Well-formed ASCII below 0x7F, two-byte and three-byte sequences.
PlainSequences(b) == WellFormedFrom(b, 0, TRUE)

\* Three bytes that encode the surrogate s, as the encoding is defined.
SurrogateBytes(s) ==
    <<\HE0 + (s \div 4096), \H80 + ((s \div 64) % 64), \H80 + (s % 64)>>

\* The CESU-8 encoding of a code point, as the encoding is defined.
CesuChar(c) ==
    IF ~IsSupplementary(c) THEN Utf8Char(c)
    ELSE SurrogateBytes(\HD800 + ((c - \H10000) \div 1024))
         \o SurrogateBytes(\HDC00 + ((c - \H10000) % 1024))

RECURSIVE CesuText(_)
CesuText(t) == IF t = <<>> THEN <<>> ELSE CesuChar(Head(t)) \o CesuText(Tail(t))

\* The code point of the surrogate pair ED b2 b3 ED b5 b6.
PairCodePoint(b2, b3, b5, b6) ==
    LET high == \HD000 + ((b2 % 64) * 64) + (b3 % 64)
        low  == \HD000 + ((b5 % 64) * 64) + (b6 % 64)
    IN  \H10000 + ((high - \HD800) * 1024) + (low - \HDC00)

\* b is a six-byte surrogate pair.
IsPair(b) == Len(b) = 6 /\ CesuSeqLen(b, 0) = 6

\* s is a well-formed multi-byte sequence without its final byte, together
\* with what must follow it: a two-byte or three-byte sequence cut short, or
\* a surrogate pair with the final byte of either half removed.
CutSequence(s) ==
    \/ Len(s) = 1 /\ \HC2 <= s[1] /\ s[1] <= \HDF
    \/ Len(s) = 2 /\ ThreeByteStart(s[1], s[2])
    \/ /\ Len(s) = 5
       /\ s[1] = \HED /\ \HA0 <= s[2] /\ s[2] <= \HAF
       /\ s[3] = \HED /\ \HB0 <= s[4] /\ s[4] <= \HBF /\ ContByte(s[5])
    \/ /\ Len(s) = 5
       /\ s[1] = \HED /\ \HA0 <= s[2] /\ s[2] <= \HAF /\ ContByte(s[3])
       /\ s[4] = \HED /\ \HB0 <= s[5] /\ s[5] <= \HBF

\* b is a well-formed CESU-8 buffer with the final byte of one of its
\* multi-byte sequences removed; the cut sequence ends at offset j.
TruncatedAt(b, i, j) ==
    /\ WellFormedCesu8(SubSeq(b, 1, i))
    /\ CutSequence(SubSeq(b, i + 1, j))
    /\ WellFormedCesu8(SubSeq(b, j + 1, Len(b)))

IsTruncated(b) ==
    \E i \in 0..Len(b) : \E j \in i..Len(b) : TruncatedAt(b, i, j)

\* A first-half surrogate sequence starts at offset i of b.
FirstHalfAt(b, i) ==
    /\ i + 3 <= Len(b)
    /\ b[i + 1] = \HED /\ \HA0 <= b[i + 2] /\ b[i + 2] <= \HAF
    /\ ContByte(b[i + 3])

\* A second-half surrogate sequence starts at offset i of b.
SecondHalfAt(b, i) ==
    /\ i + 3 <= Len(b)
    /\ b[i + 1] = \HED /\ \HB0 <= b[i + 2] /\ b[i + 2] <= \HBF
    /\ ContByte(b[i + 3])

\* Some first half in b is not immediately followed by a second half.
HasUnpairedFirstHalf(b) ==
    \E i \in 0..Len(b) : FirstHalfAt(b, i) /\ ~SecondHalfAt(b, i + 3)

Encoded == pc \in {"encoded", "decoded"}
Decoded == pc = "decoded"

----------------------------------------------------------------------------
(* Properties. *)

\* C1: for every text with at least one code point >= U+10000 (and any mix
\* of other code points), from_cesu8(to_cesu8(t)) succeeds and returns text
\* equal to t.
SupplementaryRoundTrip ==
    (Decoded /\ HasSupplementary(text))
        => decoded.tag = "Ok" /\ decoded.bytes = AsBytes(text)

\* The round trip of C1 for the texts that hold no U+007F.
SupplementaryRoundTripWithoutDel ==
    (Decoded /\ HasSupplementary(text) /\ \A k \in 1..Len(text) : text[k] # \H7F)
        => decoded.tag = "Ok" /\ decoded.bytes = AsBytes(text)

\* C2: every concatenation of well-formed one-, two- and three-byte
\* non-surrogate sequences and well-formed six-byte surrogate pairs decodes
\* successfully: from_cesu8 fails only on what is not well-formed.
WellFormedDecodes ==
    (Decoded /\ WellFormedCesu8(bytes)) => decoded.tag = "Ok"

\* The statement of C2 for the buffers that hold no byte 0x7F.
WellFormedWithoutDelDecodes ==
    (Decoded /\ WellFormedCesu8(bytes) /\ \A k \in 1..Len(bytes) : bytes[k] # \H7F)
        => decoded.tag = "Ok"

\* C3: is_valid_cesu8(t) is true iff t has no code point >= U+10000, iff
\* to_cesu8(t) is the borrowed result with exactly t's bytes; and for such t
\* from_cesu8 of those bytes is the borrowed result equal to t.
ValidIffBorrowed ==
    /\ pc # "text" => (valid <=> ~HasSupplementary(text))
    /\ Encoded =>
         (valid <=> (encoded.kind = "Borrowed" /\ encoded.bytes = AsBytes(text)))
    /\ (Decoded /\ valid) =>
         /\ decoded.tag = "Ok"
         /\ decoded.kind = "Borrowed"
         /\ decoded.bytes = AsBytes(text)

ValidIffBorrowedWitness ==
    /\ Decoded
    /\ text = <<\H4D, \HE9, \H65E5>>
    /\ valid
    /\ encoded.kind = "Borrowed"
    /\ decoded.kind = "Borrowed"

\* C4: for every text with a supplementary code point, to_cesu8(t) is an
\* owned buffer, the concatenation per code point of its UTF-8 bytes (code
\* points <= U+FFFF) or of the six bytes of its surrogate pair; its length is
\* len(t) + 2 * (number of supplementary code points) and it holds no byte
\* >= 0xF0.
EncodedPerCodePoint ==
    (Encoded /\ HasSupplementary(text)) =>
        /\ encoded.kind = "Owned"
        /\ encoded.bytes = CesuText(text)
        /\ Len(encoded.bytes) = Len(AsBytes(text)) + 2 * NumSupplementary(text)
        /\ \A k \in 1..Len(encoded.bytes) : encoded.bytes[k] < \HF0

EncodedPerCodePointWitness ==
    /\ Encoded
    /\ text = <<\HE9, \H10FFFF, \H65E5>>
    /\ encoded.kind = "Owned"
    /\ Len(encoded.bytes) = 11

\* C5 as stated: to_cesu8 of the single code point U+10437 is exactly
\* ED A0 81 ED B0 97.
EncodeDeseretYeeAsStated ==
    (Encoded /\ text = <<\H10437>>) =>
        /\ encoded.kind = "Owned"
        /\ encoded.bytes = <<\HED, \HA0, \H81, \HED, \HB0, \H97>>

\* C5, amended: to_cesu8 of the single code point U+10437 is exactly
\* ED A0 81 ED B0 B7, high surrogate 0xD801 then low surrogate 0xDC37 (the
\* low six bits of 0xDC37 are 0x37, so its last byte is 0x80 | 0x37 = 0xB7).
EncodeDeseretYee ==
    (Encoded /\ text = <<\H10437>>) =>
        /\ encoded.kind = "Owned"
        /\ encoded.bytes = <<\HED, \HA0, \H81, \HED, \HB0, \HB7>>

EncodeDeseretYeeWitness ==
    /\ pc = "encoded"
    /\ text = <<\H10437>>
    /\ Len(encoded.bytes) = 6
    /\ encoded.bytes[6] = \HB7

\* C6: a surrogate pair ED b2 b3 ED b5 b6, after any well-formed ASCII
\* (< 0x7F), two-byte and three-byte sequences, decodes successfully to those
\* sequences unchanged followed by the four UTF-8 bytes of the pair's code
\* point; in particular 4D E6 97 A5 ED A0 81 ED B0 81 decodes to the eight
\* bytes of "M", U+65E5, U+10401.
PairDecodes ==
    Decoded =>
        /\ \A k \in 0..Len(bytes) :
             LET prefix == SubSeq(bytes, 1, k)
                 pair == SubSeq(bytes, k + 1, Len(bytes))
             IN  (PlainSequences(prefix) /\ IsPair(pair)) =>
                   /\ decoded.tag = "Ok"
                   /\ decoded.bytes = prefix \o Utf8Char(
                          PairCodePoint(pair[2], pair[3], pair[5], pair[6]))
        /\ bytes = <<\H4D, \HE6, \H97, \HA5, \HED, \HA0, \H81, \HED, \HB0, \H81>>
             => decoded.bytes = AsBytes(<<\H4D, \H65E5, \H10401>>)

PairDecodesWitness ==
    /\ Decoded
    /\ bytes = <<\H4D, \HE6, \H97, \HA5, \HED, \HA0, \H81, \HED, \HB0, \H81>>
    /\ decoded.tag = "Ok"
    /\ Len(decoded.bytes) = 8

\* C7: a well-formed CESU-8 buffer with the final byte of one of its
\* multi-byte sequences removed (a two-byte sequence, a three-byte sequence,
\* either half of a surrogate pair), at the end of the buffer or before
\* further sequences, makes from_cesu8 return an error.
TruncationFails ==
    (Decoded /\ IsTruncated(bytes)) => decoded.tag = "Err"

\* The first half of a pair cut short, before its second half and a further
\* sequence.
TruncationFailsWitness ==
    /\ Decoded
    /\ bytes = <<\HED, \HA0, \HED, \HB0, \H81, \H4D>>
    /\ IsTruncated(bytes)
    /\ decoded.tag = "Err"

\* C8: from_cesu8 fails on every input in which a first-half surrogate
\* sequence is not immediately followed by a second-half surrogate sequence.
UnpairedFirstHalfFails ==
    (Decoded /\ HasUnpairedFirstHalf(bytes)) => decoded.tag = "Err"

\* A first half followed by a four-byte sequence.
UnpairedFirstHalfFailsWitness ==
    /\ Decoded
    /\ bytes = <<\HED, \HA0, \H81, \HF0, \H90, \H90, \H81>>
    /\ HasUnpairedFirstHalf(bytes)
    /\ decoded.tag = "Err"

CapacityAtLeastFiveFourths ==
    (Encoded /\ encoded.kind = "Owned") =>
        encoded.requested >= Len(AsBytes(text)) + (Len(AsBytes(text)) \div 4)

====
